---- MODULE Spec2Model ----
(***************************************************************************)
(* A model of autoscaler/autoscaling_groups.py: the scaling-group object   *)
(* (AutoScalingGroup), the timeout reconciler (AutoScalingTimeouts) and    *)
(* the provider and cluster state they act on.                             *)
(*                                                                         *)
(* Times are seconds. Instance identifiers and node identifiers are small  *)
(* naturals; a cluster node is named by the instance it runs on.           *)
(***************************************************************************)
EXTENDS Integers, Sequences, FiniteSets, TLC

(***************************************************************************)
(* Bounds of the model.                                                    *)
(***************************************************************************)
\* the largest MaxSize of a scaling group
MaxSizeBound == 2
\* the number of instances a scaling group can hold
NumInstances == 3

VARIABLES
    asgs,            \* the AutoScalingGroup objects of this iteration, by _id
    kube,            \* the cluster nodes: node -> its unschedulable flag
    cloud,           \* what the provider holds: desired capacity by group,
                     \* spot requests, activity logs, spot prices
    timeouts,        \* the AutoScalingTimeouts object: its four dictionaries
    now,             \* the clock, in seconds
    last,            \* the last operation: its input, its provider calls, its result
    handed           \* the activities handed to reconcile_limits so far, each
                     \* with the status it had: <<ActivityId, StatusCode>>

vars == <<asgs, kube, cloud, timeouts, now, last, handed>>

(***************************************************************************)
(* Python values.                                                          *)
(***************************************************************************)
\* None, and a present optional value
None == << >>
Some(v) == << v >>

Min(a, b) == IF a < b THEN a ELSE b

\* the elements of a set of naturals as a list in increasing order
RECURSIVE SortedSeq(_)
SortedSeq(S) ==
    IF S = {} THEN << >>
    ELSE LET m == CHOOSE x \in S : \A y \in S : x <= y
         IN <<m>> \o SortedSeq(S \ {m})

Range(s) == { s[i] : i \in 1..Len(s) }

\* a set as a list, in some fixed order
RECURSIVE SortedSeq2(_)
SortedSeq2(S) ==
    IF S = {} THEN << >>
    ELSE LET m == CHOOSE x \in S : TRUE
         IN <<m>> \o SortedSeq2(S \ {m})

\* list.remove(x): the list without the first occurrence of x
RECURSIVE Remove(_, _)
Remove(s, x) ==
    IF s = << >> THEN << >>
    ELSE IF Head(s) = x THEN Tail(s)
    ELSE <<Head(s)>> \o Remove(Tail(s), x)

\* a set of group ids as a list, "workers" before "workers-only-az"
SortedIds(S) ==
    LET plain == { id \in S : id[2] = "workers" }
    IN SortedSeq2(plain) \o SortedSeq2(S \ plain)

\* dict.get(k) and d[k] = v on a dictionary held as a function
Get(d, k) == IF k \in DOMAIN d THEN d[k] ELSE None
Put(d, k, v) == [ x \in DOMAIN d \cup {k} |-> IF x = k THEN v ELSE d[x] ]

(***************************************************************************)
(* The groups. _id is (region, name).                                      *)
(***************************************************************************)
Groups == { <<"us-east-1", "workers-only-az">>, <<"us-east-1", "workers">> }

InstanceIds == 1..NumInstances

\* AutoScalingGroup.__init__: the object built from a provider snapshot
AutoScalingGroup(id, kube_nodes, raw_group, launch_config) ==
    LET instance_ids == raw_group.Instances
        nodes == SelectSeq(SortedSeq(DOMAIN kube_nodes), LAMBDA n : n \in instance_ids)
    IN [ region              |-> id[1],
         name                |-> id[2],
         launch_config       |-> launch_config,
         desired_capacity    |-> raw_group.DesiredCapacity,
         min_size            |-> raw_group.MinSize,
         max_size            |-> raw_group.MaxSize,
         is_spot             |-> launch_config.SpotPrice # None,
         instance_ids        |-> instance_ids,
         nodes               |-> nodes,
         unschedulable_nodes |-> SelectSeq(nodes, LAMBDA n : kube_nodes[n]),
         _id                 |-> id ]

\* AutoScalingGroup.actual_capacity
actual_capacity(asg) == Len(asg.nodes)

\* AutoScalingGroup.contains
contains(asg, node) == node \in asg.instance_ids

(***************************************************************************)
(* An operation runs on a frame w:                                         *)
(*   asgs, kube, cloud, tm   the objects, the cluster, the provider and    *)
(*           the AutoScalingTimeouts object as the operation changes them, *)
(*   now     the clock,                                                    *)
(*   outage  0: the provider answers; k > 0: its k-th next call raises,    *)
(*   calls   the provider calls issued so far,                             *)
(*   raised  an exception is propagating,                                  *)
(*   result  the value returned,                                           *)
(*   runs    for each group reconciled: the activities handed to           *)
(*           reconcile_limits and what each processed entry did.           *)
(***************************************************************************)
Frame(outage) ==
    [ asgs |-> asgs, kube |-> kube, cloud |-> cloud, tm |-> timeouts, now |-> now,
      outage |-> outage, calls |-> << >>, raised |-> FALSE, result |-> "None",
      runs |-> << >> ]

\* a frame that also holds the operation that came before this one
FrameAfter(outage) == Frame(outage) @@ [ after |-> last.op ]

\* whether the provider answers the next call, and the outage after a call
Answers(w) == w.outage # 1
AfterCall(w) == IF w.outage > 1 THEN w.outage - 1 ELSE w.outage

\* AutoScalingGroup.set_desired_capacity
set_desired_capacity(w, id, new_desired_capacity) ==
    LET call == [ api |-> "set_desired_capacity",
                  AutoScalingGroupName |-> w.asgs[id].name,
                  DesiredCapacity |-> new_desired_capacity,
                  answered |-> Answers(w) ]
    IN IF Answers(w)
       THEN [ w EXCEPT !.calls = Append(@, call),
                       !.outage = AfterCall(w),
                       !.cloud.desired[id] = new_desired_capacity,
                       !.asgs[id].desired_capacity = new_desired_capacity,
                       !.result = "True" ]
       ELSE [ w EXCEPT !.calls = Append(@, call),
                       !.raised = TRUE ]

\* the loop of scale() over self.unschedulable_nodes, from position i
RECURSIVE Uncordon(_, _, _, _, _, _)
Uncordon(w, id, i, num_schedulable, desired_capacity, uncordon_ok) ==
    IF i > Len(w.asgs[id].unschedulable_nodes) THEN w
    ELSE LET node == w.asgs[id].unschedulable_nodes[i]
         IN IF node \in uncordon_ok
            THEN LET w1 == [ w EXCEPT !.kube[node] = FALSE ]
                 IN IF num_schedulable + 1 = desired_capacity THEN w1
                    ELSE Uncordon(w1, id, i + 1, num_schedulable + 1, desired_capacity,
                                  uncordon_ok)
            ELSE Uncordon(w, id, i + 1, num_schedulable, desired_capacity, uncordon_ok)

\* scale() with the scale-down branch of line 475 enabled: it sets the
\* capacity whenever it differs from the target
scale_with_scale_down(w, id, new_desired_capacity, uncordon_ok) ==
    LET desired_capacity == Min(w.asgs[id].max_size, new_desired_capacity)
    IN IF w.asgs[id].desired_capacity # desired_capacity
       THEN set_desired_capacity(w, id, desired_capacity)
       ELSE [ w EXCEPT !.result = "False" ]

\* AutoScalingGroup.scale
scale(w, id, new_desired_capacity, uncordon_ok) ==
    LET desired_capacity == Min(w.asgs[id].max_size, new_desired_capacity)
        num_unschedulable == Len(w.asgs[id].unschedulable_nodes)
        num_schedulable == actual_capacity(w.asgs[id]) - num_unschedulable
        w1 == IF num_schedulable < desired_capacity
              THEN Uncordon(w, id, 1, num_schedulable, desired_capacity, uncordon_ok)
              ELSE w
        no == [ w1 EXCEPT !.result = "False" ]
    IN IF w1.asgs[id].desired_capacity # desired_capacity
       THEN IF w1.asgs[id].desired_capacity = w1.asgs[id].max_size THEN no
            ELSE IF w1.asgs[id].desired_capacity < desired_capacity
                 THEN set_desired_capacity(w1, id, desired_capacity)
                 ELSE no
       ELSE no

\* the provider's terminate_instance_in_auto_scaling_group: "min_size" when
\* the decrement would take desired capacity below the group's minimum
Terminate(w, id, decrement_capacity) ==
    IF ~Answers(w) THEN "error"
    ELSE IF decrement_capacity /\ w.cloud.desired[id] - 1 < w.asgs[id].min_size THEN "min_size"
    ELSE "ok"

\* the loop of scale_nodes_in() over nodes, from position i
RECURSIVE ScaleIn(_, _, _, _)
ScaleIn(w, id, nodes, i) ==
    IF i > Len(nodes) THEN w
    ELSE LET node == nodes[i]
             decrement_capacity == w.asgs[id].desired_capacity > w.asgs[id].min_size
             outcome == Terminate(w, id, decrement_capacity)
             call == [ api |-> "terminate_instance_in_auto_scaling_group",
                       InstanceId |-> node,
                       ShouldDecrementDesiredCapacity |-> decrement_capacity,
                       desired |-> w.cloud.desired[id],
                       outcome |-> outcome ]
             w1 == [ w EXCEPT !.calls = Append(@, call), !.outage = AfterCall(w) ]
         IN IF outcome = "ok"
            THEN ScaleIn([ w1 EXCEPT
                             !.cloud.desired[id] = IF decrement_capacity THEN @ - 1 ELSE @,
                             !.asgs[id].nodes = Remove(@, node) ],
                         id, nodes, i + 1)
            ELSE IF outcome = "min_size" THEN ScaleIn(w1, id, nodes, i + 1)
            ELSE [ w1 EXCEPT !.raised = TRUE ]

\* scale_nodes_in() whose except clause swallows every provider error
RECURSIVE ScaleInSwallowing(_, _, _, _)
ScaleInSwallowing(w, id, nodes, i) ==
    IF i > Len(nodes) THEN w
    ELSE LET node == nodes[i]
             decrement_capacity == w.asgs[id].desired_capacity > w.asgs[id].min_size
             outcome == Terminate(w, id, decrement_capacity)
             call == [ api |-> "terminate_instance_in_auto_scaling_group",
                       InstanceId |-> node,
                       ShouldDecrementDesiredCapacity |-> decrement_capacity,
                       desired |-> w.cloud.desired[id],
                       outcome |-> outcome ]
             w1 == [ w EXCEPT !.calls = Append(@, call), !.outage = AfterCall(w) ]
         IN IF outcome = "ok"
            THEN ScaleInSwallowing([ w1 EXCEPT
                             !.cloud.desired[id] = IF decrement_capacity THEN @ - 1 ELSE @,
                             !.asgs[id].nodes = Remove(@, node) ],
                         id, nodes, i + 1)
            ELSE ScaleInSwallowing(w1, id, nodes, i + 1)

scale_nodes_in_swallowing(w, id, nodes) == ScaleInSwallowing(w, id, nodes, 1)

\* AutoScalingGroup.scale_nodes_in
scale_nodes_in(w, id, nodes) == ScaleIn(w, id, nodes, 1)

(***************************************************************************)
(* Activities and the patterns that classify them.                         *)
(*                                                                         *)
(* A regular expression is modelled by its result on each message of the   *)
(* model: None for no match, else its named groups.                        *)
(***************************************************************************)
MsgInstanceLimit ==
    "You have requested more instances (2) than your current instance limit of 1 allows for the specified instance type. Please visit http://aws.amazon.com/contact-us/ec2-request to request an adjustment to this limit. Launching EC2 instance failed."
MsgVolumeLimit ==
    "Instance became unhealthy while waiting for instance to be in InService state. Termination Reason: Client.VolumeLimitExceeded: Volume limit exceeded"
MsgCapacityLimit ==
    "Insufficient capacity. Launching EC2 instance failed."
MsgAzLimit ==
    "We currently do not have sufficient m3.large capacity in the Availability Zone you requested (us-east-1a). Launching EC2 instance failed."
MsgSpotRequestCancelled ==
    "Spot instance request: sir-1 has been cancelled."
MsgSpotLimit ==
    "Max spot instance count exceeded. Placing Spot instance request failed."
MsgSpotRequestWaiting ==
    "Placed Spot instance request: sir-1. Waiting for instance(s)"
MsgOther ==
    "Could not launch On-Demand Instances. Launching EC2 instance failed."
CauseLaunch ==
    "At 2016-01-01T00:00:00Z an instance was started in response to a difference between desired and actual capacity, increasing the capacity from 1 to 2."
CauseAzBalance ==
    "At 2016-01-01T00:00:00Z An instance was launched to aid in balancing the group's zones."

\* AutoScalingErrorMessages.INSTANCE_LIMIT.match: the group 'requested'
INSTANCE_LIMIT(status_msg) ==
    IF status_msg = MsgInstanceLimit THEN Some([ requested |-> 2, limit |-> 1 ]) ELSE None
\* AutoScalingErrorMessages.VOLUME_LIMIT.match
VOLUME_LIMIT(status_msg) == status_msg = MsgVolumeLimit
\* AutoScalingErrorMessages.CAPACITY_LIMIT.match
CAPACITY_LIMIT(status_msg) == status_msg = MsgCapacityLimit
\* AutoScalingErrorMessages.AZ_LIMIT.search
AZ_LIMIT(status_msg) == status_msg = MsgAzLimit
\* AutoScalingErrorMessages.SPOT_REQUEST_CANCELLED.search
SPOT_REQUEST_CANCELLED(status_msg) == status_msg = MsgSpotRequestCancelled
\* AutoScalingErrorMessages.SPOT_LIMIT.match
SPOT_LIMIT(status_msg) == status_msg = MsgSpotLimit
\* AutoScalingErrorMessages.SPOT_REQUEST_WAITING.search: the group 'request_id'
SPOT_REQUEST_WAITING(status_msg) ==
    IF status_msg = MsgSpotRequestWaiting THEN Some([ request_id |-> "sir-1" ]) ELSE None
\* AutoScalingCauseMessages.LAUNCH_INSTANCE.search
LAUNCH_INSTANCE(cause) ==
    IF cause = CauseLaunch
    THEN Some([ original_capacity |-> 1, target_capacity |-> 2 ])
    ELSE None
\* AutoScalingCauseMessages.AZ_BALANCE.search
AZ_BALANCE(cause) == cause = CauseAzBalance

\* a marker test every group name passes
OnlyAzAnyName(name) == name \in {"workers", "workers-only-az"}

\* 'only-az' in asg.name
OnlyAz(name) == name = "workers-only-az"

(***************************************************************************)
(* AutoScalingTimeouts.                                                    *)
(***************************************************************************)
_TIMEOUT == 3600
_SPOT_REQUEST_TIMEOUT == 300
_MAX_OUTBIDS_IN_INTERVAL == 1200
_SPOT_HISTORY_PERIOD == 18000

\* AutoScalingTimeouts.__init__
NewTimeouts ==
    [ _timeouts |-> << >>, _last_activities |-> << >>,
      _spot_timeouts |-> << >>, _spot_price_history |-> << >> ]

\* AutoScalingTimeouts.time_out_asg
time_out_asg(w, id, entry) ==
    [ w EXCEPT !.tm._timeouts = Put(@, id, Some(entry.StartTime + _TIMEOUT)) ]

\* an is_timed_out that reads _timeouts only
is_timed_out_ordinary(tm, id, t) ==
    LET timeout == Get(tm._timeouts, id)
    IN timeout # None /\ t < timeout[1]

\* AutoScalingTimeouts.is_timed_out
is_timed_out(tm, id, t) ==
    LET timeout == Get(tm._timeouts, id)
        spot_timeout == Get(tm._spot_timeouts, id)
    IN IF timeout # None /\ t < timeout[1] THEN TRUE
       ELSE IF spot_timeout # None /\ t < spot_timeout[1] THEN TRUE
       ELSE FALSE

\* AutoScalingTimeouts.cancel_spot_request: the frame and whether it cancelled
cancel_spot_request(w, region, request_id) ==
    LET describe == [ api |-> "describe_spot_instance_requests",
                      SpotInstanceRequestId |-> request_id ]
        w1 == [ w EXCEPT !.calls = Append(@, describe) ]
    IN IF request_id \notin DOMAIN w.cloud.spot_requests
       THEN [ w |-> w1, cancelled |-> FALSE ]
       ELSE IF w.cloud.spot_requests[request_id] \in {"open", "active"}
            THEN LET cancel == [ api |-> "cancel_spot_instance_requests",
                                 SpotInstanceRequestId |-> request_id,
                                 answered |-> Answers(w) ]
                 IN IF Answers(w)
                    THEN [ w |-> [ w1 EXCEPT !.calls = Append(@, cancel),
                                             !.outage = AfterCall(w),
                                             !.cloud.spot_requests[request_id] = "cancelled" ],
                           cancelled |-> TRUE ]
                    ELSE [ w |-> [ w1 EXCEPT !.calls = Append(@, cancel),
                                             !.raised = TRUE ],
                           cancelled |-> FALSE ]
            ELSE [ w |-> w1, cancelled |-> FALSE ]

\* a revert_capacity that mutates in a dry run too
revert_capacity_ungated(w, id, entry, dry_run) ==
    LET cause_m == LAUNCH_INSTANCE(entry.Cause)
    IN IF cause_m # None /\ w.asgs[id].desired_capacity > cause_m[1].original_capacity
       THEN [ w |-> set_desired_capacity(w, id, cause_m[1].original_capacity),
              reverted |-> TRUE ]
       ELSE [ w |-> w, reverted |-> FALSE ]

\* AutoScalingTimeouts.revert_capacity: the frame and whether it reverted
revert_capacity(w, id, entry, dry_run) ==
    LET cause_m == LAUNCH_INSTANCE(entry.Cause)
    IN IF cause_m # None /\ w.asgs[id].desired_capacity > cause_m[1].original_capacity
       THEN [ w |-> IF ~dry_run
                    THEN set_desired_capacity(w, id, cause_m[1].original_capacity)
                    ELSE w,
              reverted |-> TRUE ]
       ELSE [ w |-> w, reverted |-> FALSE ]

\* what one pass of the loop of reconcile_limits did: the frame after it,
\* whether the loop goes on ("continue"), the method returned ("return") or
\* an exception left it ("raise"), and whether time_out_asg was called
Step(w, ctl, marked) ==
    [ w |-> w, ctl |-> IF w.raised THEN "raise" ELSE ctl, marked |-> marked ]

\* the capacity-limit and the AZ-limit rule: revert, time out when reverted
RevertAndTimeOut(w, id, entry, dry_run) ==
    LET r == revert_capacity(w, id, entry, dry_run)
    IN IF r.w.raised THEN Step(r.w, "raise", FALSE)
       ELSE IF r.reverted
            THEN Step(time_out_asg(r.w, id, entry), "return", TRUE)
            ELSE Step(r.w, "return", FALSE)

\* an instance-limit rule that caps at the requested count
InstanceLimitRuleCapsAtRequested(w, id, entry, dry_run) ==
    LET max_desired_capacity == INSTANCE_LIMIT(entry.StatusMessage)[1].requested
        w1 == time_out_asg(w, id, entry)
    IN IF w.asgs[id].desired_capacity > max_desired_capacity
       THEN Step(IF ~dry_run
                 THEN set_desired_capacity(w1, id, max_desired_capacity)
                 ELSE w1,
                 "return", TRUE)
       ELSE Step(w, "return", FALSE)

\* an instance-limit rule that marks the group only when it mutates
InstanceLimitRuleMarksWithMutation(w, id, entry, dry_run) ==
    LET max_desired_capacity == INSTANCE_LIMIT(entry.StatusMessage)[1].requested - 1
    IN IF w.asgs[id].desired_capacity > max_desired_capacity
       THEN IF ~dry_run
            THEN Step(set_desired_capacity(time_out_asg(w, id, entry), id,
                                           max_desired_capacity),
                      "return", TRUE)
            ELSE Step(w, "return", FALSE)
       ELSE Step(w, "return", FALSE)

\* the instance-limit rule
InstanceLimitRule(w, id, entry, dry_run) ==
    LET max_desired_capacity == INSTANCE_LIMIT(entry.StatusMessage)[1].requested - 1
        w1 == time_out_asg(w, id, entry)
    IN IF w.asgs[id].desired_capacity > max_desired_capacity
       THEN Step(IF ~dry_run
                 THEN set_desired_capacity(w1, id, max_desired_capacity)
                 ELSE w1,
                 "return", TRUE)
       ELSE Step(w, "return", FALSE)

\* a volume-limit rule that lets the loop go on
VolumeLimitRuleContinues(w, id, entry) ==
    Step(time_out_asg(w, id, entry), "continue", TRUE)

\* the volume-limit rule
VolumeLimitRule(w, id, entry) == Step(time_out_asg(w, id, entry), "return", TRUE)

\* a spot-request-cancelled rule that stops the loop
SpotRequestCancelledStops(w) == Step(w, "return", FALSE)

\* the spot-request-cancelled rule
SpotRequestCancelledRule(w) == Step(w, "continue", FALSE)

\* the spot-limit rule
SpotLimitRule(w, id, entry, dry_run) ==
    LET w1 == time_out_asg(w, id, entry)
    IN Step(IF ~dry_run
            THEN set_desired_capacity(w1, id, actual_capacity(w.asgs[id]))
            ELSE w1,
            "return", TRUE)

\* the WaitingForSpotInstanceId branch
WaitingForSpotRule(w, id, entry, dry_run) ==
    IF AZ_BALANCE(entry.Cause)
    THEN Step(w, "continue", FALSE)
    ELSE IF (w.now - entry.StartTime) > _SPOT_REQUEST_TIMEOUT
    THEN LET w1 == time_out_asg(w, id, entry)
             spot_request_m == SPOT_REQUEST_WAITING(entry.StatusMessage)
         IN IF spot_request_m # None /\ ~dry_run
            THEN LET c == cancel_spot_request(w1, w.asgs[id].region,
                                              spot_request_m[1].request_id)
                 IN IF c.cancelled
                    THEN Step(set_desired_capacity(
                                  c.w, id, c.w.asgs[id].desired_capacity - 1),
                              "continue", TRUE)
                    ELSE Step(c.w, "continue", TRUE)
            ELSE Step(w1, "continue", TRUE)
    ELSE Step(w, "continue", FALSE)

\* the body of the loop of reconcile_limits for one entry
ReconcileEntry(w, id, entry, dry_run) ==
    LET status_msg == entry.StatusMessage
    IN IF entry.StatusCode \in {"Failed", "Cancelled"}
       THEN IF INSTANCE_LIMIT(status_msg) # None
            THEN InstanceLimitRule(w, id, entry, dry_run)
            ELSE IF VOLUME_LIMIT(status_msg)
            THEN VolumeLimitRule(w, id, entry)
            ELSE IF CAPACITY_LIMIT(status_msg)
            THEN RevertAndTimeOut(w, id, entry, dry_run)
            ELSE IF AZ_LIMIT(status_msg) /\ OnlyAz(w.asgs[id].name)
            THEN RevertAndTimeOut(w, id, entry, dry_run)
            ELSE IF SPOT_REQUEST_CANCELLED(status_msg)
            THEN SpotRequestCancelledRule(w)
            ELSE IF SPOT_LIMIT(status_msg)
            THEN SpotLimitRule(w, id, entry, dry_run)
            ELSE Step(w, "continue", FALSE)
       ELSE IF entry.StatusCode = "WaitingForSpotInstanceId"
       THEN WaitingForSpotRule(w, id, entry, dry_run)
       ELSE Step(w, "continue", FALSE)

\* what is kept of a pass of the loop: the entry, the group's desired
\* capacity and its _timeouts value before and after, the number of provider
\* calls before and after
StepRecord(w, r, id, entry) ==
    [ entry |-> entry, ctl |-> r.ctl, marked |-> r.marked,
      desired_before |-> w.asgs[id].desired_capacity,
      desired_after |-> r.w.asgs[id].desired_capacity,
      timeout_before |-> Get(w.tm._timeouts, id),
      timeout_after |-> Get(r.w.tm._timeouts, id),
      calls_before |-> Len(w.calls),
      calls_after |-> Len(r.w.calls) ]

\* a loop end that leaves _timeouts as it is
KeepTimeout(w, id) == [ w EXCEPT !.runs[id].ctl = "end" ]

\* the statement after the loop of reconcile_limits
ResetTimeout(w, id) ==
    [ w EXCEPT !.tm._timeouts = Put(@, id, None), !.runs[id].ctl = "end" ]

\* the loop of reconcile_limits from entry i
RECURSIVE ReconcileLoop(_, _, _, _, _)
ReconcileLoop(w, id, activities, i, dry_run) ==
    IF i > Len(activities)
    THEN ResetTimeout(w, id)
    ELSE LET r == ReconcileEntry(w, id, activities[i], dry_run)
             w1 == [ r.w EXCEPT !.runs[id].steps =
                                    Append(@, StepRecord(w, r, id, activities[i])),
                                !.runs[id].ctl = r.ctl ]
         IN IF r.ctl = "continue"
            THEN ReconcileLoop(w1, id, activities, i + 1, dry_run)
            ELSE w1

\* AutoScalingTimeouts.reconcile_limits
reconcile_limits(w, id, activities, dry_run) ==
    ReconcileLoop([ w EXCEPT !.runs = Put(@, id, [ activities |-> activities,
                                                   steps |-> << >>,
                                                   ctl |-> "continue" ]) ],
                  id, activities, 1, dry_run)

\* the regions of a list of groups, in the order they first appear
RECURSIVE RegionsOf(_)
RegionsOf(ids) ==
    IF ids = << >> THEN << >>
    ELSE LET front == RegionsOf(SubSeq(ids, 1, Len(ids) - 1))
             region == ids[Len(ids)][1]
         IN IF region \in Range(front) THEN front ELSE Append(front, region)

\* the sum of the values of a dictionary
RECURSIVE SumValues(_)
SumValues(d) ==
    IF DOMAIN d = {} THEN 0
    ELSE LET k == CHOOSE x \in DOMAIN d : TRUE
         IN d[k] + SumValues([ x \in DOMAIN d \ {k} |-> d[x] ])

RECURSIVE MaxTimestamp(_)
MaxTimestamp(history) ==
    IF Len(history) = 1 THEN history[1].Timestamp
    ELSE LET m == MaxTimestamp(Tail(history))
         IN IF history[1].Timestamp > m THEN history[1].Timestamp ELSE m

\* the loop of time_out_spot_asgs over history for one group, from item i:
\* the outbid time by availability zone
RECURSIVE OutbidTime(_, _, _, _, _, _)
OutbidTime(history, i, instance_type, bid_price, last_az_bid, outbid_time) ==
    IF i > Len(history) THEN outbid_time
    ELSE LET item == history[i]
             az == item.AvailabilityZone
         IN IF item.InstanceType # instance_type
            THEN OutbidTime(history, i + 1, instance_type, bid_price,
                            last_az_bid, outbid_time)
            ELSE LET time_diff == IF az \in DOMAIN last_az_bid
                                  THEN last_az_bid[az] - item.Timestamp
                                  ELSE 0
                     outbid == IF item.SpotPrice > bid_price
                               THEN Put(outbid_time, az,
                                        (IF az \in DOMAIN outbid_time
                                         THEN outbid_time[az] ELSE 0) + time_diff)
                               ELSE outbid_time
                 IN OutbidTime(history, i + 1, instance_type, bid_price,
                               Put(last_az_bid, az, item.Timestamp), outbid)

\* whether the average outbid time is over _MAX_OUTBIDS_IN_INTERVAL
OutbidTooLong(outbid_time) ==
    /\ DOMAIN outbid_time # {}
    /\ SumValues(outbid_time) > _MAX_OUTBIDS_IN_INTERVAL * Cardinality(DOMAIN outbid_time)

\* the spot groups of time_out_spot_asgs in one region, from group i
RECURSIVE SpotGroups(_, _, _, _)
SpotGroups(w, ids, i, history) ==
    IF i > Len(ids) THEN w
    ELSE LET asg == w.asgs[ids[i]]
             outbid_time == OutbidTime(history, 1, asg.launch_config.InstanceType,
                                       asg.launch_config.SpotPrice[1], << >>, << >>)
             spot_timeout == IF OutbidTooLong(outbid_time)
                             THEN Some(w.now + _TIMEOUT)
                             ELSE None
         IN SpotGroups([ w EXCEPT !.tm._spot_timeouts = Put(@, ids[i], spot_timeout) ],
                       ids, i + 1, history)

\* the loop of time_out_spot_asgs over the regions, from region i
RECURSIVE SpotRegions(_, _, _, _)
SpotRegions(w, regions, i, spot_ids) ==
    IF i > Len(regions) THEN w
    ELSE LET region == regions[i]
             since == w.now - _SPOT_HISTORY_PERIOD
             regional == SelectSeq(spot_ids, LAMBDA id : id[1] = region)
             types == { w.asgs[id].launch_config.InstanceType : id \in Range(regional) }
             kept == SelectSeq(Get(w.tm._spot_price_history, region),
                               LAMBDA item : item.Timestamp > since)
             newest_spot_price == IF kept # << >> THEN MaxTimestamp(kept) ELSE since
             fetched == SelectSeq(Get(w.cloud.spot_prices, region),
                                  LAMBDA item : /\ item.Timestamp >= newest_spot_price
                                                /\ item.InstanceType \in types)
             history == kept \o fetched
             w1 == [ w EXCEPT !.tm._spot_price_history = Put(@, region, history) ]
         IN SpotRegions(SpotGroups(w1, regional, 1, history), regions, i + 1, spot_ids)

\* AutoScalingTimeouts.time_out_spot_asgs
time_out_spot_asgs(w, ids) ==
    LET spot_ids == SelectSeq(ids, LAMBDA id : w.asgs[id].is_spot)
    IN SpotRegions(w, RegionsOf(spot_ids), 1, spot_ids)

\* a test that takes an activity in flight for a completed one
IsCompletedOrInFlight(activity) == activity.Progress <= 100

\* activity['Progress'] == 100
IsCompleted(activity) == activity.Progress = 100

\* a watermark test that never stops the loop
IsWatermarkOlder(activity, last_activity) ==
    last_activity # None /\ activity.ActivityId < last_activity[1] - 100

\* activity['ActivityId'] == self._last_activities.get(region, None)
IsWatermark(activity, last_activity) ==
    last_activity # None /\ activity.ActivityId = last_activity[1]

\* the loop of refresh_timeouts over iter_activities, from activity i: the
\* newest completed activity, the cutoff and the activities by group name
RECURSIVE ScanActivities(_, _, _, _, _)
ScanActivities(log, i, last_activity, t, st) ==
    IF i > Len(log) THEN st
    ELSE LET activity == log[i]
             st1 == IF st.newest_completed_activity = None /\ IsCompleted(activity)
                    THEN [ st EXCEPT !.newest_completed_activity = Some(activity) ]
                    ELSE st
         IN IF IsWatermark(activity, last_activity)
            THEN st1
            ELSE LET st2 == IF st1.start_time_cutoff = None
                            THEN [ st1 EXCEPT !.start_time_cutoff = Some(t - _TIMEOUT) ]
                            ELSE st1
                     name == activity.AutoScalingGroupName
                 IN IF activity.StartTime < st2.start_time_cutoff[1]
                    THEN st2
                    ELSE ScanActivities(log, i + 1, last_activity, t,
                             [ st2 EXCEPT !.activities =
                                 Put(@, name, Append(Get(@, name), activity)) ])

\* the loop of refresh_timeouts over regional_asgs, from group i
RECURSIVE ReconcileGroups(_, _, _, _, _)
ReconcileGroups(w, ids, i, activities, dry_run) ==
    IF i > Len(ids) \/ w.raised THEN w
    ELSE ReconcileGroups(
             reconcile_limits(w, ids[i], Get(activities, w.asgs[ids[i]].name), dry_run),
             ids, i + 1, activities, dry_run)

\* the loop of refresh_timeouts over asgs_by_region, from region i; with no
\* completed activity seen, newest_completed_activity['ActivityId'] raises
RECURSIVE RefreshRegions(_, _, _, _, _)
RefreshRegions(w, regions, i, ids, dry_run) ==
    IF i > Len(regions) \/ w.raised THEN w
    ELSE LET region == regions[i]
             regional_asgs == SelectSeq(ids, LAMBDA id : id[1] = region)
             last_activity == IF region \in DOMAIN w.tm._last_activities
                              THEN Some(w.tm._last_activities[region])
                              ELSE None
             st == ScanActivities(Get(w.cloud.activities, region), 1, last_activity, w.now,
                                  [ newest_completed_activity |-> None,
                                    start_time_cutoff |-> None,
                                    activities |-> << >> ])
         IN IF st.newest_completed_activity = None
            THEN [ w EXCEPT !.raised = TRUE ]
            ELSE RefreshRegions(
                     ReconcileGroups(
                         [ w EXCEPT !.tm._last_activities =
                               Put(@, region, st.newest_completed_activity[1].ActivityId) ],
                         regional_asgs, 1, st.activities, dry_run),
                     regions, i + 1, ids, dry_run)

\* AutoScalingTimeouts.refresh_timeouts
refresh_timeouts(w, ids, dry_run) ==
    LET w1 == RefreshRegions(time_out_spot_asgs(w, ids), RegionsOf(ids), 1, ids, dry_run)
    IN [ w1 EXCEPT !.result = "None" ]

(***************************************************************************)
(* AutoScalingGroups: the discovery of the groups.                         *)
(***************************************************************************)
_CLUSTER_KEY == "KubernetesCluster"
_ROLE_KEYS == {"KubernetesRole", "Role"}
_WORKER_ROLE_VALUES == {"worker", "kubernetes-minion"}
batch_size == 50

\* s[a:b] of a Python list, 0 <= a <= b
Slice(s, a, b) == SubSeq(s, a + 1, Min(b, Len(s)))

\* client.describe_launch_configurations through fetch_all, the client being
\* that of a region: the region's launch configurations of the names given;
\* what the provider answers to an empty list of names is its choice, all of
\* them or none
describe_launch_configurations(w, region, names) ==
    IF names = << >>
    THEN IF w.cloud.unnamed = "all" THEN w.cloud.launch_configurations[region] ELSE {}
    ELSE { lc \in w.cloud.launch_configurations[region] :
             lc.LaunchConfigurationName \in Range(names) }

\* the loop of get_all_raw_groups_and_launch_configs over range(0,
\* len(raw_groups), batch_size), from launch_config_idx
RECURSIVE LaunchConfigBatches(_, _, _, _, _)
LaunchConfigBatches(w, region, raw_groups, launch_config_idx, all_launch_configs) ==
    IF launch_config_idx >= Len(raw_groups)
    THEN [ w |-> w, all_launch_configs |-> all_launch_configs ]
    ELSE LET groups == Slice(raw_groups, launch_config_idx * batch_size,
                             (launch_config_idx + 1) * batch_size)
             names == [ i \in 1..Len(groups) |-> groups[i].LaunchConfigurationName ]
             launch_configs == describe_launch_configurations(w, region, names)
             found == { lc.LaunchConfigurationName : lc \in launch_configs }
             call == [ api |-> "describe_launch_configurations",
                       LaunchConfigurationNames |-> names ]
         IN LaunchConfigBatches(
                [ w EXCEPT !.calls = Append(@, call) ], region, raw_groups,
                launch_config_idx + batch_size,
                [ name \in DOMAIN all_launch_configs \cup found |->
                    IF name \in found
                    THEN CHOOSE lc \in launch_configs : lc.LaunchConfigurationName = name
                    ELSE all_launch_configs[name] ])

\* AutoScalingGroups.get_all_raw_groups_and_launch_configs
get_all_raw_groups_and_launch_configs(w, region) ==
    LET raw_groups == w.cloud.raw_groups[region]
        r == LaunchConfigBatches(w, region, raw_groups, 0, << >>)
    IN [ w |-> r.w, raw_groups |-> raw_groups, launch_configs |-> r.all_launch_configs ]

\* sorted(raw_groups, key=lambda g: g['AutoScalingGroupName']): the group at
\* place k is the one with k - 1 names below its own
SortedByName(raw_groups) ==
    LET Below(i) == { j \in 1..Len(raw_groups) :
                        raw_groups[j].AutoScalingGroupName
                          < raw_groups[i].AutoScalingGroupName }
    IN [ k \in 1..Len(raw_groups) |->
           raw_groups[CHOOSE i \in 1..Len(raw_groups) : Cardinality(Below(i)) = k - 1] ]

\* the loop of get_all_groups over raw_group['Tags'], from tag i
RECURSIVE ScanTags(_, _, _)
ScanTags(tags, i, st) ==
    IF i > Len(tags) THEN st
    ELSE ScanTags(tags, i + 1,
                  IF tags[i].Key = _CLUSTER_KEY
                  THEN [ st EXCEPT !.cluster_name = Some(tags[i].Value) ]
                  ELSE IF tags[i].Key \in _ROLE_KEYS
                  THEN [ st EXCEPT !.role = Some(tags[i].Value) ]
                  ELSE st)

\* whether get_all_groups keeps a group, self.cluster_name being None or set
Kept(raw_group, self_cluster_name) ==
    IF self_cluster_name # None
    THEN LET st == ScanTags(raw_group.Tags, 1, [ cluster_name |-> None, role |-> None ])
         IN ~( \/ st.cluster_name # self_cluster_name
               \/ st.role = None
               \/ st.role[1] \notin _WORKER_ROLE_VALUES )
    ELSE TRUE

\* the loop of get_all_groups over the sorted groups of a region: the groups
\* kept are appended in their order, up to the first one whose launch
\* configuration was not fetched, which is a KeyError
AppendGroups(w, region, raw_groups, launch_configs, self_cluster_name) ==
    LET kept == SelectSeq(raw_groups, LAMBDA g : Kept(g, self_cluster_name))
        missing == { i \in 1..Len(kept) :
                       kept[i].LaunchConfigurationName \notin DOMAIN launch_configs }
        n == IF missing = {} THEN Len(kept)
             ELSE (CHOOSE i \in missing : \A j \in missing : i <= j) - 1
        ids == [ i \in 1..n |-> <<region, kept[i].AutoScalingGroupName>> ]
        RawGroupOf(id) == kept[CHOOSE i \in 1..n : ids[i] = id]
    IN [ w EXCEPT
           !.asgs = [ id \in DOMAIN w.asgs \cup Range(ids) |->
                        IF id \in Range(ids)
                        THEN AutoScalingGroup(id, w.kube, RawGroupOf(id),
                                 launch_configs[RawGroupOf(id).LaunchConfigurationName])
                        ELSE w.asgs[id] ],
           !.result = @ \o ids,
           !.raised = missing # {} ]

\* the first loop of get_all_groups over self.regions: one task for each
\* region, and for each region what its task returns and the calls it issues
FetchRegions(w, regions) ==
    [ region \in Range(regions) |->
        LET r == get_all_raw_groups_and_launch_configs([ w EXCEPT !.calls = << >> ], region)
        IN [ raw_groups |-> r.raw_groups, launch_configs |-> r.launch_configs,
             calls |-> r.w.calls ] ]

\* the tasks of the ThreadPoolExecutor run side by side: a schedule names,
\* call after call, the region whose task issues its next call
Schedules(fetched, regions) ==
    LET total == Cardinality(UNION { { <<i, k>> : k \in 1..Len(fetched[regions[i]].calls) } :
                                       i \in 1..Len(regions) })
    IN { s \in [1..total -> 1..Len(regions)] :
           \A i \in 1..Len(regions) :
               Cardinality({ k \in 1..total : s[k] = i }) = Len(fetched[regions[i]].calls) }

\* the calls of the tasks in the order of a schedule
Interleaved(fetched, regions, schedule) ==
    [ k \in 1..Len(schedule) |->
        fetched[regions[schedule[k]]].calls[
            Cardinality({ j \in 1..k : schedule[j] = schedule[k] })] ]

\* the second loop of get_all_groups over self.regions, from region i
RECURSIVE GroupsOfRegions(_, _, _, _, _)
GroupsOfRegions(w, regions, i, fetched, self_cluster_name) ==
    IF i > Len(regions) \/ w.raised THEN w
    ELSE GroupsOfRegions(
             AppendGroups(w, regions[i], SortedByName(fetched[regions[i]].raw_groups),
                          fetched[regions[i]].launch_configs, self_cluster_name),
             regions, i + 1, fetched, self_cluster_name)

\* AutoScalingGroups.get_all_groups: the groups in w.asgs, their order in
\* w.result
get_all_groups(w, regions, self_cluster_name, schedule) ==
    LET fetched == FetchRegions(w, regions)
    IN GroupsOfRegions([ w EXCEPT !.asgs = << >>, !.result = << >>,
                                  !.calls = @ \o Interleaved(fetched, regions, schedule) ],
                       regions, 1, fetched, self_cluster_name)

(***************************************************************************)
(* The state machine of one group's operations.                            *)
(***************************************************************************)
\* the provider's snapshots of a group: MinSize <= DesiredCapacity <= MaxSize
RawGroups ==
    { [ DesiredCapacity |-> d, MinSize |-> lo, MaxSize |-> hi, Instances |-> InstanceIds ] :
        d \in 0..MaxSizeBound, lo \in 0..1, hi \in (MaxSizeBound - 1)..MaxSizeBound }

LaunchConfigs == { [ InstanceType |-> "m3.large", SpotPrice |-> None ] }

\* the cluster's nodes: the nodes of a group are interchangeable, so the
\* unschedulable ones are taken to be the first k
Clusters == { [ n \in InstanceIds |-> n <= k ] : k \in 0..NumInstances }

\* the nodes whose uncordon() fails: none, one of them, or all
UncordonFailures == {{}} \cup { {n} : n \in InstanceIds } \cup {InstanceIds}

\* what the provider holds for the groups of asgs
Provider(objects) ==
    [ desired |-> [ id \in DOMAIN objects |-> objects[id].desired_capacity ],
      spot_requests |-> << >>,
      activities |-> << >>,
      spot_prices |-> << >> ]

NoOp == [ op |-> "init", id |-> << >>, frame |-> << >>, arg |-> << >>,
          calls |-> << >>, raised |-> FALSE, result |-> "None",
          dry_run |-> FALSE, runs |-> << >> ]

Init ==
    /\ \E raw \in RawGroups, lc \in LaunchConfigs, cluster \in Clusters :
         LET id == <<"us-east-1", "workers">>
         IN /\ raw.MinSize <= raw.DesiredCapacity
            /\ raw.DesiredCapacity <= raw.MaxSize
            /\ kube = cluster
            /\ asgs = (id :> AutoScalingGroup(id, cluster, raw, lc))
            /\ cloud = Provider(id :> AutoScalingGroup(id, cluster, raw, lc))
    /\ timeouts = NewTimeouts
    /\ now = 0
    /\ last = NoOp
    /\ handed = {}

\* the activities the runs of reconcile_limits of one operation were handed
HandedBy(runs) ==
    UNION { { <<runs[id].activities[i].ActivityId, runs[id].activities[i].StatusCode>> :
                i \in 1..Len(runs[id].activities) } : id \in DOMAIN runs }

\* the state after an operation that began in frame w0 and ended in frame w
Commit(w0, w, op, id, arg, dry_run) ==
    /\ asgs' = w.asgs
    /\ kube' = w.kube
    /\ cloud' = w.cloud
    /\ timeouts' = w.tm
    /\ now' = w.now
    /\ last' = [ op |-> op, id |-> id, frame |-> w0, arg |-> arg,
                 calls |-> w.calls, raised |-> w.raised,
                 result |-> IF w.raised THEN "raise" ELSE w.result,
                 dry_run |-> dry_run, runs |-> w.runs ]
    /\ handed' = handed \cup HandedBy(w.runs)

Scale ==
    \E id \in DOMAIN asgs, target \in 0..(MaxSizeBound + 1),
       fails \in UncordonFailures, outage \in 0..1 :
        Commit(Frame(outage), scale(Frame(outage), id, target, InstanceIds \ fails),
               "scale", id, target, FALSE)

\* the batch is the first k nodes of the group, the nodes being interchangeable
ScaleNodesIn ==
    \E id \in DOMAIN asgs :
      \E k \in 1..Len(asgs[id].nodes), outage \in 0..NumInstances :
        LET nodes == SubSeq(asgs[id].nodes, 1, k)
        IN /\ outage <= k
           /\ Commit(Frame(outage), scale_nodes_in(Frame(outage), id, nodes),
                     "scale_nodes_in", id, nodes, FALSE)

\* a caller sets the capacity directly, to a value the group's sizes allow
SetDesiredCapacity ==
    \E id \in DOMAIN asgs, outage \in 0..1 :
      \E new_desired_capacity \in asgs[id].min_size..asgs[id].max_size :
        Commit(Frame(outage), set_desired_capacity(Frame(outage), id, new_desired_capacity),
               "set_desired_capacity", id, new_desired_capacity, FALSE)

Next == Scale \/ ScaleNodesIn \/ SetDesiredCapacity

Spec == Init /\ [][Next]_vars

(***************************************************************************)
(* One pass of refresh_timeouts over one group whose recent activities the *)
(* provider's log holds, newest first, before an old completed activity.   *)
(***************************************************************************)
\* what an activity of the log can be, but for its identifier and start
Templates ==
    { [ StatusCode |-> "Failed", StatusMessage |-> MsgInstanceLimit,
        Cause |-> CauseLaunch, Progress |-> 100 ],
      [ StatusCode |-> "Failed", StatusMessage |-> MsgVolumeLimit,
        Cause |-> CauseLaunch, Progress |-> 100 ],
      [ StatusCode |-> "Failed", StatusMessage |-> MsgCapacityLimit,
        Cause |-> CauseLaunch, Progress |-> 100 ],
      [ StatusCode |-> "Failed", StatusMessage |-> MsgAzLimit,
        Cause |-> CauseLaunch, Progress |-> 100 ],
      [ StatusCode |-> "Cancelled", StatusMessage |-> MsgSpotRequestCancelled,
        Cause |-> CauseLaunch, Progress |-> 100 ],
      [ StatusCode |-> "Failed", StatusMessage |-> MsgSpotLimit,
        Cause |-> CauseLaunch, Progress |-> 100 ],
      [ StatusCode |-> "Failed", StatusMessage |-> MsgOther,
        Cause |-> CauseLaunch, Progress |-> 100 ],
      [ StatusCode |-> "WaitingForSpotInstanceId", StatusMessage |-> MsgSpotRequestWaiting,
        Cause |-> CauseLaunch, Progress |-> 20 ],
      [ StatusCode |-> "WaitingForSpotInstanceId", StatusMessage |-> MsgSpotRequestWaiting,
        Cause |-> CauseAzBalance, Progress |-> 20 ],
      [ StatusCode |-> "Successful", StatusMessage |-> "",
        Cause |-> CauseLaunch, Progress |-> 100 ] }

\* the longest list of recent activities
MaxActivities == 2

\* the start of the newest activity, and the seconds between two activities
NewestStart == 1000
StartGap == 100

\* the i-th activity of a group's log, newest first
Activity(template, name, i) ==
    [ ActivityId |-> 100 - i,
      AutoScalingGroupName |-> name,
      StartTime |-> NewestStart - StartGap * i,
      Progress |-> template.Progress,
      StatusCode |-> template.StatusCode,
      StatusMessage |-> template.StatusMessage,
      Cause |-> template.Cause ]

\* an activity completed more than _TIMEOUT before any pass
OldActivity(name) ==
    [ ActivityId |-> 1, AutoScalingGroupName |-> name, StartTime |-> 0 - _TIMEOUT,
      Progress |-> 100, StatusCode |-> "Successful", StatusMessage |-> "",
      Cause |-> CauseLaunch ]

ActivityLogs(name) ==
    UNION { { [ i \in 1..n |-> Activity(ts[i], name, i) ] \o <<OldActivity(name)>> :
                ts \in [1..n -> Templates] } : n \in 0..MaxActivities }

\* an expiry left by an earlier pass
EarlierExpiry == 4000

\* the states of the spot request of the log: one that can still be
\* cancelled, and one that cannot
SpotRequestStates == {"open", "closed"}

InitReconcile ==
    /\ \E id \in Groups, d \in 0..MaxSizeBound :
         LET raw == [ DesiredCapacity |-> d, MinSize |-> 0, MaxSize |-> MaxSizeBound,
                      Instances |-> {1} ]
             lc == [ InstanceType |-> "m3.large", SpotPrice |-> None ]
             cluster == [ n \in InstanceIds |-> FALSE ]
             objects == (id :> AutoScalingGroup(id, cluster, raw, lc))
         IN /\ kube = cluster
            /\ asgs = objects
            /\ \E log \in ActivityLogs(id[2]), state \in SpotRequestStates :
                 cloud = [ Provider(objects) EXCEPT
                             !.spot_requests = ("sir-1" :> state),
                             !.activities = (id[1] :> log) ]
            /\ timeouts \in { NewTimeouts,
                              [ NewTimeouts EXCEPT !._timeouts = (id :> Some(EarlierExpiry)) ] }
    /\ now \in { NewestStart, NewestStart + _SPOT_REQUEST_TIMEOUT }
    /\ last = NoOp
    /\ handed = {}

\* one pass over the groups, in the order of their names
RefreshTimeouts ==
    /\ last.op = "init"
    /\ \E dry_run \in BOOLEAN, outage \in 0..1 :
         /\ dry_run => outage = 0
         /\ Commit(Frame(outage),
                   refresh_timeouts(Frame(outage), SortedIds(DOMAIN asgs), dry_run),
                   "refresh_timeouts", << >>, SortedIds(DOMAIN asgs), dry_run)

NextReconcile == RefreshTimeouts

SpecReconcile == InitReconcile /\ [][NextReconcile]_vars

(***************************************************************************)
(* The state machine of a spot group over several passes of                *)
(* refresh_timeouts, the clock advancing between them.                     *)
(***************************************************************************)
\* the group's bid and the spot prices observed, in cents
BidPrice == 10
SpotPrices == { 5, 20 }

\* the longest spot price history the provider holds, the seconds between
\* two of its observations, the longest history the object may hold before a
\* pass, the seconds of a tick and the number of ticks
MaxPrices == 3
PriceGap == 1500
MaxHistory == 3
TickStep == 1800
MaxTicks == 3

\* the i-th observation of the provider's spot price history, newest first
SpotPrice(az, price, i) ==
    [ Timestamp |-> NewestStart - PriceGap * i, AvailabilityZone |-> az,
      InstanceType |-> "m3.large", SpotPrice |-> price ]

SpotPriceHistories ==
    UNION { { [ i \in 1..n |-> SpotPrice(o[i][1], o[i][2], i) ] :
                o \in [1..n -> {"us-east-1a", "us-east-1b"} \X SpotPrices] } :
            n \in 0..MaxPrices }

\* the activity logs of the spot group: nothing recent, or a volume limit
SpotActivityLogs(name) ==
    { <<OldActivity(name)>>,
      <<Activity([ StatusCode |-> "Failed", StatusMessage |-> MsgVolumeLimit,
                   Cause |-> CauseLaunch, Progress |-> 100 ], name, 1),
        OldActivity(name)>> }

InitSpot ==
    /\ LET id == <<"us-east-1", "workers">>
           raw == [ DesiredCapacity |-> 1, MinSize |-> 0, MaxSize |-> MaxSizeBound,
                    Instances |-> {1} ]
           lc == [ InstanceType |-> "m3.large", SpotPrice |-> Some(BidPrice) ]
           cluster == [ n \in InstanceIds |-> FALSE ]
           objects == (id :> AutoScalingGroup(id, cluster, raw, lc))
       IN /\ kube = cluster
          /\ asgs = objects
          /\ \E log \in SpotActivityLogs(id[2]), prices \in SpotPriceHistories :
               cloud = [ Provider(objects) EXCEPT
                           !.activities = (id[1] :> log),
                           !.spot_prices = (id[1] :> prices) ]
    /\ timeouts = NewTimeouts
    /\ now = NewestStart
    /\ last = NoOp
    /\ handed = {}

\* a pass over the groups
RefreshSpot ==
    /\ \A region \in DOMAIN timeouts._spot_price_history :
         Len(timeouts._spot_price_history[region]) <= MaxHistory
    /\ Commit(Frame(0), refresh_timeouts(Frame(0), SortedIds(DOMAIN asgs), FALSE),
              "refresh_timeouts", << >>, SortedIds(DOMAIN asgs), FALSE)

\* the caller asks whether a group is timed out
IsTimedOut ==
    \E id \in DOMAIN asgs :
        Commit(Frame(0),
               [ Frame(0) EXCEPT !.result = IF is_timed_out(timeouts, id, now)
                                            THEN "True" ELSE "False" ],
               "is_timed_out", id, << >>, FALSE)

\* the clock advances
Tick ==
    /\ now < NewestStart + TickStep * MaxTicks
    /\ now' = now + TickStep
    /\ last' = [ NoOp EXCEPT !.op = "tick" ]
    /\ UNCHANGED <<asgs, kube, cloud, timeouts, handed>>

NextSpot == RefreshSpot \/ IsTimedOut \/ Tick

SpecSpot == InitSpot /\ [][NextSpot]_vars

(***************************************************************************)
(* The state machine of a region's activity log over several passes of     *)
(* refresh_timeouts: the provider starts activities and ends them while    *)
(* the passes go on.                                                       *)
(***************************************************************************)
\* the number of activities the provider starts
MaxLaunches == 2

\* an activity the provider has not finished
InFlight ==
    [ StatusCode |-> "InProgress", StatusMessage |-> "", Cause |-> CauseLaunch,
      Progress |-> 50 ]

\* how an activity ends
Outcomes ==
    { [ StatusCode |-> "Successful", StatusMessage |-> "" ],
      [ StatusCode |-> "Failed", StatusMessage |-> MsgVolumeLimit ] }

InitWatermark ==
    /\ LET id == <<"us-east-1", "workers">>
           raw == [ DesiredCapacity |-> 1, MinSize |-> 0, MaxSize |-> MaxSizeBound,
                    Instances |-> {1} ]
           lc == [ InstanceType |-> "m3.large", SpotPrice |-> None ]
           cluster == [ n \in InstanceIds |-> FALSE ]
           objects == (id :> AutoScalingGroup(id, cluster, raw, lc))
           done == [ StatusCode |-> "Successful", StatusMessage |-> "",
                     Cause |-> CauseLaunch, Progress |-> 100 ]
       IN /\ kube = cluster
          /\ asgs = objects
          /\ cloud = [ Provider(objects) EXCEPT
                         !.activities = (id[1] :> <<Activity(done, id[2], 1)>>) ]
    /\ timeouts = NewTimeouts
    /\ now = NewestStart
    /\ last = NoOp
    /\ handed = {}

\* the provider starts an activity for a group; the log is newest first
Launch ==
    \E id \in DOMAIN asgs :
        LET log == cloud.activities[id[1]]
            activity == [ ActivityId |-> log[1].ActivityId + 1,
                          AutoScalingGroupName |-> id[2],
                          StartTime |-> now,
                          Progress |-> InFlight.Progress,
                          StatusCode |-> InFlight.StatusCode,
                          StatusMessage |-> InFlight.StatusMessage,
                          Cause |-> InFlight.Cause ]
        IN /\ Len(log) <= MaxLaunches
           /\ cloud' = [ cloud EXCEPT !.activities[id[1]] = <<activity>> \o log ]
           /\ now' = now + StartGap
           /\ last' = [ NoOp EXCEPT !.op = "launch" ]
           /\ UNCHANGED <<asgs, kube, timeouts, handed>>

\* the provider ends an activity in flight
Complete ==
    \E region \in DOMAIN cloud.activities :
      \E i \in 1..Len(cloud.activities[region]), outcome \in Outcomes :
        /\ cloud.activities[region][i].Progress < 100
        /\ cloud' = [ cloud EXCEPT
                        !.activities[region][i].Progress = 100,
                        !.activities[region][i].StatusCode = outcome.StatusCode,
                        !.activities[region][i].StatusMessage = outcome.StatusMessage ]
        /\ last' = [ NoOp EXCEPT !.op = "complete" ]
        /\ UNCHANGED <<asgs, kube, timeouts, now, handed>>

\* a pass over the groups
RefreshWatermark ==
    Commit(FrameAfter(0),
           refresh_timeouts(FrameAfter(0), SortedIds(DOMAIN asgs), FALSE),
           "refresh_timeouts", << >>, SortedIds(DOMAIN asgs), FALSE)

NextWatermark == Launch \/ Complete \/ RefreshWatermark

SpecWatermark == InitWatermark /\ [][NextWatermark]_vars

(***************************************************************************)
(* The state machine of the discovery of the groups: the provider holds    *)
(* the groups of two regions, get_all_groups lists them once.  The names   *)
(* of the groups and of their launch configurations are numbers, ordered   *)
(* as the names are.                                                       *)
(***************************************************************************)
\* the most groups the first region holds, the most groups of it when the
\* tags of its first group vary, and the most groups the second region holds
MaxGroups == 51
MaxTagged == 2
MaxOther == 1

Regions == << "us-east-1", "us-west-2" >>

TagKeys == {_CLUSTER_KEY, "Name"} \cup _ROLE_KEYS
TagValues(key) ==
    IF key = _CLUSTER_KEY THEN {"c1", "c2"}
    ELSE IF key \in _ROLE_KEYS THEN {"worker", "kubernetes-minion", "master"}
    ELSE {"node"}

\* the tags of a group in any order, a key at most once
TagLists ==
    UNION { { tags \in [1..n -> [ Key : TagKeys, Value : UNION { TagValues(k) : k \in TagKeys } ]] :
                /\ \A i \in 1..n : tags[i].Value \in TagValues(tags[i].Key)
                /\ \A i \in 1..n, j \in 1..n : i # j => tags[i].Key # tags[j].Key } :
            n \in 0..Cardinality(TagKeys) }

\* the tags of a worker group of the cluster c1
WorkerTags == << [ Key |-> _CLUSTER_KEY, Value |-> "c1" ],
                 [ Key |-> "KubernetesRole", Value |-> "worker" ] >>

\* the group named k as describe_auto_scaling_groups returns it
RawGroup(k, tags) ==
    [ AutoScalingGroupName |-> k, LaunchConfigurationName |-> k, Tags |-> tags,
      DesiredCapacity |-> 1, MinSize |-> 0, MaxSize |-> MaxSizeBound,
      Instances |-> {k} \cap InstanceIds ]

\* the launch configuration named k
LaunchConfiguration(k) ==
    [ LaunchConfigurationName |-> k, InstanceType |-> "m3.large", SpotPrice |-> None ]

\* n groups as the provider lists them, by rising or by falling name
RawGroupList(n, rising, tags) ==
    [ i \in 1..n |-> LET k == IF rising THEN i ELSE n + 1 - i
                     IN RawGroup(k, IF k = 1 THEN tags ELSE WorkerTags) ]

\* the m groups of the second region, named after the n of the first
OtherGroupList(n, m) ==
    [ i \in 1..m |-> [ RawGroup(n + i, WorkerTags) EXCEPT !.Instances = {} ] ]

InitCatalog ==
    /\ \E n \in 0..MaxGroups, m \in 0..MaxOther, rising \in BOOLEAN, tags \in TagLists,
          unnamed \in {"all", "none"} :
         /\ n \in 1..MaxTagged \/ tags = WorkerTags
         /\ n \in 1..MaxTagged => unnamed = "none"
         /\ cloud = Provider(<< >>) @@
                      [ raw_groups |-> (Regions[1] :> RawGroupList(n, rising, tags)
                                        @@ Regions[2] :> OtherGroupList(n, m)),
                        launch_configurations |->
                            (Regions[1] :> { LaunchConfiguration(k) : k \in 1..n }
                             @@ Regions[2] :> { LaunchConfiguration(n + k) : k \in 1..m }),
                        unnamed |-> unnamed ]
    /\ kube = [ n \in InstanceIds |-> FALSE ]
    /\ asgs = << >>
    /\ timeouts = NewTimeouts
    /\ now = 0
    /\ last = NoOp
    /\ handed = {}

\* AutoScalingGroups(session, regions, cluster_name).get_all_groups(kube_nodes)
GetAllGroups ==
    /\ last.op = "init"
    /\ \E self_cluster_name \in {None, Some("c1")},
          schedule \in Schedules(FetchRegions(Frame(0), Regions), Regions) :
         Commit(Frame(0), get_all_groups(Frame(0), Regions, self_cluster_name, schedule),
                "get_all_groups", << >>, self_cluster_name, FALSE)

NextCatalog == GetAllGroups

SpecCatalog == InitCatalog /\ [][NextCatalog]_vars

(***************************************************************************)
(* The state machine of passes of refresh_timeouts that follow each other  *)
(* over one group and one log, the log being possibly empty or holding     *)
(* only activities in flight, and a provider call possibly raising.        *)
(***************************************************************************)
\* what an activity of these logs can be
PassTemplates ==
    { t \in Templates :
        \/ t.StatusMessage \in {MsgInstanceLimit, MsgVolumeLimit, ""}
        \/ t.StatusMessage = MsgSpotRequestWaiting /\ t.Cause = CauseLaunch }

\* the logs that end with an old completed activity
PassLogs(name) ==
    UNION { { [ i \in 1..n |-> Activity(ts[i], name, i) ] \o <<OldActivity(name)>> :
                ts \in [1..n -> PassTemplates] } : n \in 0..MaxActivities }

\* the logs of a group that has completed no activity yet
FreshLogs(name) ==
    UNION { { [ i \in 1..n |-> Activity(ts[i], name, i) ] :
                ts \in [1..n -> { t \in PassTemplates : t.Progress < 100 }] } :
            n \in 0..MaxActivities }

\* a frame that also holds what the operation before this one was, whether
\* it raised, its provider calls, what its runs of reconcile_limits were
\* handed and the watermarks it began with
FramePrior(outage) ==
    Frame(outage) @@
      [ after |-> last.op,
        prior |-> [ raised |-> last.raised, calls |-> last.calls, runs |-> last.runs,
                    _last_activities |-> IF last.op = "init" THEN << >>
                                         ELSE last.frame.tm._last_activities ] ]

InitPasses ==
    /\ \E d \in 0..MaxSizeBound :
         LET id == <<"us-east-1", "workers">>
             raw == [ DesiredCapacity |-> d, MinSize |-> 0, MaxSize |-> MaxSizeBound,
                      Instances |-> {1} ]
             lc == [ InstanceType |-> "m3.large", SpotPrice |-> None ]
             cluster == [ n \in InstanceIds |-> FALSE ]
             objects == (id :> AutoScalingGroup(id, cluster, raw, lc))
         IN /\ kube = cluster
            /\ asgs = objects
            /\ \E log \in PassLogs(id[2]) \cup FreshLogs(id[2]) :
                 cloud = [ Provider(objects) EXCEPT
                             !.spot_requests = ("sir-1" :> "open"),
                             !.activities = (id[1] :> log) ]
    /\ timeouts = NewTimeouts
    /\ now = NewestStart
    /\ last = NoOp
    /\ handed = {}

\* a pass over the groups; the first provider call of the pass may raise
RefreshAgain ==
    \E outage \in 0..1 :
        Commit(FramePrior(outage),
               refresh_timeouts(FramePrior(outage), SortedIds(DOMAIN asgs), FALSE),
               "refresh_timeouts", << >>, SortedIds(DOMAIN asgs), FALSE)

NextPasses == RefreshAgain

SpecPasses == InitPasses /\ [][NextPasses]_vars

(***************************************************************************)
(* The claims about the group's operations.                                *)
(***************************************************************************)
\* the set_desired_capacity calls of the last operation
SetCalls == SelectSeq(last.calls, LAMBDA c : c.api = "set_desired_capacity")

\* C2: scale(target) issues a set_desired_capacity call only when
\* desired_capacity is below min(max_size, target); the call asks for exactly
\* min(max_size, target), and once the provider has answered it the group's
\* desired_capacity is that value and scale reports True. In every other
\* case no call is issued, desired_capacity is unchanged and scale reports
\* False. desired_capacity is never lowered.
C2_ScaleNeverLowers ==
    last.op = "scale" =>
        LET pre == last.frame.asgs[last.id]
            post == asgs[last.id]
            desired == Min(pre.max_size, last.arg)
        IN /\ post.desired_capacity >= pre.desired_capacity
           /\ IF pre.desired_capacity < desired
              THEN /\ Len(SetCalls) = 1
                   /\ SetCalls[1].DesiredCapacity = desired
                   /\ IF SetCalls[1].answered
                      THEN /\ post.desired_capacity = desired
                           /\ cloud.desired[last.id] = desired
                           /\ last.result = "True"
                      ELSE /\ post.desired_capacity = pre.desired_capacity
                           /\ last.result = "raise"
              ELSE /\ SetCalls = << >>
                   /\ post.desired_capacity = pre.desired_capacity
                   /\ last.result = "False"

\* a scale that raised the capacity, and one that met a group above its target
C2_Witness ==
    /\ last.op = "scale"
    /\ last.result = "True"
    /\ asgs[last.id].desired_capacity > last.frame.asgs[last.id].desired_capacity
    /\ asgs[last.id].desired_capacity = last.frame.asgs[last.id].max_size
    /\ last.arg > last.frame.asgs[last.id].max_size

\* C3: no termination request of a scale_nodes_in batch asks the provider to
\* decrement desired capacity when the desired capacity the provider holds
\* at that moment is not above min_size.
C3_NoDecrementBelowMin ==
    last.op = "scale_nodes_in" =>
        \A i \in 1..Len(last.calls) :
            last.calls[i].ShouldDecrementDesiredCapacity =>
                last.calls[i].desired > last.frame.asgs[last.id].min_size

\* C4: in scale_nodes_in a min-size rejection is absorbed (the node stays in
\* self.nodes and the next node of the batch is attempted); any other
\* provider error propagates, ends the batch, and leaves the nodes
\* terminated before it removed from self.nodes.
C4_ScaleInErrors ==
    last.op = "scale_nodes_in" =>
        LET calls == last.calls
            nodes == last.arg
            kept == Range(asgs[last.id].nodes)
        IN /\ Len(calls) <= Len(nodes)
           /\ \A i \in 1..Len(calls) :
                /\ calls[i].InstanceId = nodes[i]
                /\ calls[i].outcome = "min_size" =>
                      /\ nodes[i] \in kept
                      /\ i < Len(nodes) => Len(calls) > i
                /\ calls[i].outcome = "ok" => nodes[i] \notin kept
                /\ calls[i].outcome = "error" =>
                      /\ i = Len(calls)
                      /\ last.result = "raise"
           /\ last.result = "raise" <=>
                \E i \in 1..Len(calls) : calls[i].outcome = "error"
           /\ last.result # "raise" =>
                /\ Len(calls) = Len(nodes)
                /\ last.result = "None"

\* a batch in which a rejection was followed by another attempt, and an
\* earlier termination stayed removed when a later call raised
C4_Witness ==
    /\ last.op = "scale_nodes_in"
    /\ Len(last.calls) = 3
    /\ last.calls[1].outcome = "ok"
    /\ last.calls[2].outcome = "min_size"
    /\ last.calls[3].outcome = "error"
    /\ last.result = "raise"
    /\ last.arg[1] \notin Range(asgs[last.id].nodes)
    /\ last.arg[2] \in Range(asgs[last.id].nodes)

(***************************************************************************)
(* The claims about reconcile_limits, on the last pass of refresh_timeouts.*)
(***************************************************************************)
\* the groups the last pass reconciled
Reconciled == IF last.op = "refresh_timeouts" THEN DOMAIN last.runs ELSE {}

\* the entries the last pass processed for a group, with what each did
Steps(id) == last.runs[id].steps

\* the provider calls issued while an entry was processed
IssuedBy(s) == SubSeq(last.calls, s.calls_before + 1, s.calls_after)

\* the mutating provider calls of the last operation
Mutations ==
    SelectSeq(last.calls, LAMBDA c : c.api \in {"set_desired_capacity",
                                                "cancel_spot_instance_requests",
                                                "terminate_instance_in_auto_scaling_group"})

\* a Failed or Cancelled entry the instance-limit rule takes
IsInstanceLimit(entry) ==
    /\ entry.StatusCode \in {"Failed", "Cancelled"}
    /\ INSTANCE_LIMIT(entry.StatusMessage) # None

\* C5: when a pass that is not a dry run processes a Failed or Cancelled
\* instance-limit entry with requested = N and desired_capacity is above
\* N - 1, one set_desired_capacity(N - 1) is issued, the expiry in _timeouts
\* becomes the entry's StartTime + _TIMEOUT and, once the provider has
\* answered, desired_capacity is N - 1; when desired_capacity is N - 1 or
\* less, no call is issued, desired_capacity stays and the entry marks
\* nothing.
C5_InstanceLimitCaps ==
    \A id \in Reconciled : \A i \in 1..Len(Steps(id)) :
        LET s == Steps(id)[i]
            cap == INSTANCE_LIMIT(s.entry.StatusMessage)[1].requested - 1
        IN ~last.dry_run /\ IsInstanceLimit(s.entry) =>
             /\ i = Len(Steps(id))
             /\ IF s.desired_before > cap
                THEN /\ Len(IssuedBy(s)) = 1
                     /\ IssuedBy(s)[1].api = "set_desired_capacity"
                     /\ IssuedBy(s)[1].DesiredCapacity = cap
                     /\ s.marked
                     /\ Get(timeouts._timeouts, id) = Some(s.entry.StartTime + _TIMEOUT)
                     /\ IssuedBy(s)[1].answered =>
                          /\ asgs[id].desired_capacity = cap
                          /\ cloud.desired[id] = cap
                ELSE /\ IssuedBy(s) = << >>
                     /\ ~s.marked
                     /\ asgs[id].desired_capacity = s.desired_before
                     /\ cloud.desired[id] = s.desired_before
                     /\ Get(timeouts._timeouts, id) = s.timeout_before

\* an instance-limit entry capped the group over an earlier expiry
C5_Witness ==
    \E id \in Reconciled : \E i \in 1..Len(Steps(id)) :
        /\ ~last.dry_run
        /\ IsInstanceLimit(Steps(id)[i].entry)
        /\ Steps(id)[i].desired_before = 2
        /\ asgs[id].desired_capacity = 1
        /\ cloud.desired[id] = 1
        /\ Get(last.frame.tm._timeouts, id) = Some(EarlierExpiry)
        /\ Get(timeouts._timeouts, id) = Some(Steps(id)[i].entry.StartTime + _TIMEOUT)

\* C6: a dry run of refresh_timeouts issues no set_desired_capacity and no
\* spot request cancellation, whatever the rules its entries meet, and
\* leaves every group's desired_capacity, the provider's copy of it and the
\* spot requests as they were.
C6_DryRunMutatesNothing ==
    last.op = "refresh_timeouts" /\ last.dry_run =>
        /\ Mutations = << >>
        /\ cloud.desired = last.frame.cloud.desired
        /\ cloud.spot_requests = last.frame.cloud.spot_requests
        /\ \A id \in DOMAIN asgs :
             asgs[id].desired_capacity = last.frame.asgs[id].desired_capacity

\* a dry run in which a capacity-limit entry found a launch to revert
C6_Witness ==
    /\ last.dry_run
    /\ \E id \in Reconciled : \E i \in 1..Len(Steps(id)) :
         /\ Steps(id)[i].entry.StatusMessage = MsgCapacityLimit
         /\ Steps(id)[i].marked
         /\ Steps(id)[i].desired_before = 2
         /\ asgs[id].desired_capacity = 2

\* the same pass from the same state as a dry run
DryPass == refresh_timeouts(last.frame, last.arg, TRUE)

\* whether the last operation cancelled a spot request
CancelledSpotRequest ==
    \E i \in 1..Len(last.calls) :
        /\ last.calls[i].api = "cancel_spot_instance_requests"
        /\ last.calls[i].answered

\* C7 as stated: a pass that is not a dry run and in which no provider call
\* raised leaves in _timeouts the expiry a dry run leaves from the same
\* state and the same activities.
C7_DryRunSameExpiry ==
    last.op = "refresh_timeouts" /\ ~last.dry_run /\ ~last.raised =>
        \A id \in DOMAIN asgs :
            Get(timeouts._timeouts, id) = Get(DryPass.tm._timeouts, id)

\* a Failed or Cancelled entry the capacity-limit rule takes, or the AZ-limit
\* rule for a group of this name: the rules that revert before they mark
IsReverting(entry, name) ==
    /\ entry.StatusCode \in {"Failed", "Cancelled"}
    /\ INSTANCE_LIMIT(entry.StatusMessage) = None
    /\ ~VOLUME_LIMIT(entry.StatusMessage)
    /\ \/ CAPACITY_LIMIT(entry.StatusMessage)
       \/ AZ_LIMIT(entry.StatusMessage) /\ OnlyAz(name)

\* whether the last pass cancelled a spot request while it processed an
\* entry of a group and went on to an entry whose rule compares
\* desired_capacity: instance-limit, capacity-limit or AZ-limit
CancelledBeforeLimit(id) ==
    \E i \in 1..Len(Steps(id)), j \in 1..Len(Steps(id)) :
        /\ i < j
        /\ \E c \in Range(IssuedBy(Steps(id)[i])) :
               c.api = "cancel_spot_instance_requests" /\ c.answered
        /\ \/ IsInstanceLimit(Steps(id)[j].entry)
           \/ IsReverting(Steps(id)[j].entry, asgs[id].name)

\* the entry at which a provider call raised in the last pass, if any
RaisedAt(id) ==
    IF last.raised /\ Steps(id) # << >> /\ Steps(id)[Len(Steps(id))].ctl = "raise"
    THEN Some(Steps(id)[Len(Steps(id))])
    ELSE None

\* a provider call raised in revert_capacity, before the rule marked
RaisedInRevert(id) ==
    RaisedAt(id) # None /\ IsReverting(RaisedAt(id)[1].entry, asgs[id].name)

\* a provider call raised in the WaitingForSpotInstanceId branch, after it
\* marked
RaisedInWaiting(id) ==
    RaisedAt(id) # None /\ RaisedAt(id)[1].entry.StatusCode = "WaitingForSpotInstanceId"

\* C7 amended: a pass that is not a dry run leaves in _timeouts the expiry a
\* dry run leaves from the same state and the same activities, but in two
\* cases.  One: the pass cancelled a spot request, which lowered
\* desired_capacity, and went on to an instance-limit, capacity-limit or
\* AZ-limit entry.  Two: a provider call raised in revert_capacity or in the
\* WaitingForSpotInstanceId branch; the pass then leaves the expiry that
\* stood before the capacity-limit or AZ-limit entry (the call comes before
\* the marking), or the StartTime + _TIMEOUT of the waiting entry (the
\* marking comes before the call), while the dry run goes on.  A call that
\* raises in the instance-limit or the spot-limit rule leaves the expiry of
\* the dry run.
C7_DryRunSameExpiryButCancelOrRaise ==
    last.op = "refresh_timeouts" /\ ~last.dry_run =>
        \A id \in Reconciled :
            /\ ~CancelledBeforeLimit(id) /\ ~RaisedInRevert(id) /\ ~RaisedInWaiting(id) =>
                  Get(timeouts._timeouts, id) = Get(DryPass.tm._timeouts, id)
            /\ RaisedInRevert(id) =>
                  Get(timeouts._timeouts, id) = RaisedAt(id)[1].timeout_before
            /\ RaisedInWaiting(id) =>
                  Get(timeouts._timeouts, id) =
                      Some(RaisedAt(id)[1].entry.StartTime + _TIMEOUT)

\* a pass in which the waiting branch marked the group and cancelled nothing,
\* and a later entry lowered desired_capacity and marked the group as the dry
\* run marks it
C7_Witness ==
    /\ last.op = "refresh_timeouts" /\ ~last.dry_run /\ ~last.raised
    /\ ~CancelledSpotRequest
    /\ \E id \in Reconciled :
         /\ \E i \in 1..Len(Steps(id)) :
                /\ Steps(id)[i].entry.StatusCode = "WaitingForSpotInstanceId"
                /\ Steps(id)[i].marked
         /\ asgs[id].desired_capacity < last.frame.asgs[id].desired_capacity
         /\ DryPass.asgs[id].desired_capacity = last.frame.asgs[id].desired_capacity
         /\ Get(timeouts._timeouts, id) # None
         /\ Get(timeouts._timeouts, id) # Get(last.frame.tm._timeouts, id)
         /\ Get(timeouts._timeouts, id) = Get(DryPass.tm._timeouts, id)

\* no entry of the last pass marked the group
Unmarked(id) == \A i \in 1..Len(Steps(id)) : ~Steps(id)[i].marked

\* C8 as stated: after a pass in which no entry marked the group, the
\* group's value in _timeouts is null.
C8_UnmarkedPassClears ==
    \A id \in Reconciled :
        ~last.raised /\ Unmarked(id) => Get(timeouts._timeouts, id) = None

\* C8 amended: after a pass in which no entry marked the group, the group's
\* value in _timeouts is null when the loop reached the end of the list
\* (empty list, unclassified or benign entries only) and is the value stored
\* before the pass when a failure rule matched and found nothing to correct.
C8_UnmarkedPassClearsAtLoopEnd ==
    \A id \in Reconciled :
        ~last.raised /\ Unmarked(id) =>
            IF last.runs[id].ctl = "end"
            THEN Get(timeouts._timeouts, id) = None
            ELSE /\ last.runs[id].ctl = "return"
                 /\ Get(timeouts._timeouts, id) = Get(last.frame.tm._timeouts, id)

\* a pass over entries that marked nothing cleared an earlier expiry
C8_Witness ==
    \E id \in Reconciled :
        /\ ~last.raised
        /\ Unmarked(id)
        /\ Len(Steps(id)) = MaxActivities
        /\ last.runs[id].ctl = "end"
        /\ Get(last.frame.tm._timeouts, id) = Some(EarlierExpiry)
        /\ Get(timeouts._timeouts, id) = None

\* a WaitingForSpotInstanceId entry, not an AZ rebalance, that waited longer
\* than _SPOT_REQUEST_TIMEOUT when the last pass ran
IsOverdueSpotWait(entry) ==
    /\ entry.StatusCode = "WaitingForSpotInstanceId"
    /\ ~AZ_BALANCE(entry.Cause)
    /\ (last.frame.now - entry.StartTime) > _SPOT_REQUEST_TIMEOUT

\* C9: when a pass met an overdue WaitingForSpotInstanceId entry that is not
\* an AZ rebalance, then once the pass has finished the group's value in
\* _timeouts is not null, and is_timed_out holds while it is in the future.
C9_OverdueSpotWaitTimesOut ==
    \A id \in Reconciled :
        (~last.raised /\ \E i \in 1..Len(Steps(id)) : IsOverdueSpotWait(Steps(id)[i].entry))
            => /\ Get(timeouts._timeouts, id) # None
               /\ now < Get(timeouts._timeouts, id)[1] => is_timed_out(timeouts, id, now)

\* a Failed or Cancelled entry the spot-request-cancelled rule takes
IsSpotRequestCancelled(entry, name) ==
    /\ entry.StatusCode \in {"Failed", "Cancelled"}
    /\ INSTANCE_LIMIT(entry.StatusMessage) = None
    /\ ~VOLUME_LIMIT(entry.StatusMessage)
    /\ ~CAPACITY_LIMIT(entry.StatusMessage)
    /\ ~(AZ_LIMIT(entry.StatusMessage) /\ OnlyAz(name))
    /\ SPOT_REQUEST_CANCELLED(entry.StatusMessage)

\* the same pass from the same state, the spot-request-cancelled entries
\* taken out of the provider's activities
PassWithoutCancelled ==
    refresh_timeouts(
        [ last.frame EXCEPT !.cloud.activities =
            [ region \in DOMAIN @ |->
                SelectSeq(@[region],
                          LAMBDA e : ~IsSpotRequestCancelled(e, e.AutoScalingGroupName)) ] ],
        last.arg, last.dry_run)

\* C10: a spot-request-cancelled entry marks nothing, issues no call, leaves
\* desired_capacity as it is and lets the loop go on; the expiry and the
\* desired capacity a pass leaves are those of the same pass over the list
\* without such entries.
C10_SpotRequestCancelledInert ==
    \A id \in Reconciled :
        /\ \A i \in 1..Len(Steps(id)) :
             LET s == Steps(id)[i]
             IN IsSpotRequestCancelled(s.entry, id[2]) =>
                  /\ ~s.marked
                  /\ s.ctl = "continue"
                  /\ s.desired_after = s.desired_before
                  /\ s.timeout_after = s.timeout_before
                  /\ IssuedBy(s) = << >>
        /\ Get(timeouts._timeouts, id) = Get(PassWithoutCancelled.tm._timeouts, id)
        /\ asgs[id].desired_capacity = PassWithoutCancelled.asgs[id].desired_capacity
        /\ cloud.desired[id] = PassWithoutCancelled.cloud.desired[id]
        /\ last.raised = PassWithoutCancelled.raised

\* a spot-request-cancelled entry ahead of the entry that capped the group
C10_Witness ==
    \E id \in Reconciled :
        /\ Len(Steps(id)) = 2
        /\ IsSpotRequestCancelled(Steps(id)[1].entry, id[2])
        /\ Steps(id)[2].marked
        /\ Steps(id)[2].ctl = "return"
        /\ asgs[id].desired_capacity < last.frame.asgs[id].desired_capacity
        /\ Get(timeouts._timeouts, id) = Some(Steps(id)[2].entry.StartTime + _TIMEOUT)

(***************************************************************************)
(* The claim about is_timed_out.                                           *)
(***************************************************************************)
\* the expiry a channel holds for a group is in the future
InFuture(channel, id) ==
    /\ id \in DOMAIN channel
    /\ channel[id] # None
    /\ now < channel[id][1]

\* C1: is_timed_out(G) is true exactly when the expiry _timeouts holds for G
\* is not null and now is strictly before it, or the expiry _spot_timeouts
\* holds for G is not null and now is strictly before it; a group neither
\* dictionary holds is not timed out.
C1_TimedOutIffEitherChannel ==
    last.op = "is_timed_out" =>
        /\ last.result \in {"True", "False"}
        /\ last.result = "True" <=>
             \/ InFuture(timeouts._timeouts, last.id)
             \/ InFuture(timeouts._spot_timeouts, last.id)

\* a group timed out by its spot expiry alone, its ordinary expiry cleared
C1_Witness ==
    /\ last.op = "is_timed_out"
    /\ last.result = "True"
    /\ last.id \in DOMAIN timeouts._timeouts
    /\ timeouts._timeouts[last.id] = None
    /\ InFuture(timeouts._spot_timeouts, last.id)

(***************************************************************************)
(* The claims about the rules of reconcile_limits.                         *)
(***************************************************************************)
\* a Failed or Cancelled entry with the AZ-limit message that no earlier
\* rule takes
IsAzLimit(entry) ==
    /\ entry.StatusCode \in {"Failed", "Cancelled"}
    /\ INSTANCE_LIMIT(entry.StatusMessage) = None
    /\ ~VOLUME_LIMIT(entry.StatusMessage)
    /\ ~CAPACITY_LIMIT(entry.StatusMessage)
    /\ AZ_LIMIT(entry.StatusMessage)

\* C11: a Failed or Cancelled AZ-limit entry reverts capacity and marks the
\* group only when the group's name holds 'only-az', and then stops the
\* loop; for a group without the marker the entry issues no call, leaves
\* desired_capacity and the expiry as they are and lets the loop go on.
C11_AzLimitOnlyForMarkedGroups ==
    \A id \in Reconciled : \A i \in 1..Len(Steps(id)) :
        LET s == Steps(id)[i]
            original == LAUNCH_INSTANCE(s.entry.Cause)[1].original_capacity
        IN IsAzLimit(s.entry) =>
             IF id[2] = "workers-only-az"
             THEN /\ s.ctl \in {"return", "raise"}
                  /\ i = Len(Steps(id))
                  /\ s.marked <=> (s.ctl = "return" /\ s.desired_before > original)
                  /\ s.marked => s.timeout_after = Some(s.entry.StartTime + _TIMEOUT)
                  /\ (s.marked /\ ~last.dry_run) => s.desired_after = original
                  /\ ~s.marked => s.desired_after = s.desired_before
             ELSE /\ s.ctl = "continue"
                  /\ ~s.marked
                  /\ IssuedBy(s) = << >>
                  /\ s.desired_after = s.desired_before
                  /\ s.timeout_after = s.timeout_before

\* a group without the marker went past an AZ-limit entry it could have
\* reverted, to the next entry of its list
C11_Witness ==
    \E id \in Reconciled :
        /\ id[2] = "workers"
        /\ Len(Steps(id)) = 2
        /\ IsAzLimit(Steps(id)[1].entry)
        /\ Steps(id)[1].desired_before = 2
        /\ Steps(id)[1].desired_after = 2
        /\ Steps(id)[2].marked

(***************************************************************************)
(* The claims about time_out_spot_asgs.                                    *)
(***************************************************************************)
\* the outbid time by availability zone that a pass over the history the
\* object now holds computes for a spot group
OutbidTimeOf(id) ==
    OutbidTime(Get(timeouts._spot_price_history, id[1]), 1,
               asgs[id].launch_config.InstanceType,
               asgs[id].launch_config.SpotPrice[1], << >>, << >>)

\* the zones of a group whose accumulated outbid time is not zero
OutbidZones(id) == { az \in DOMAIN OutbidTimeOf(id) : OutbidTimeOf(id)[az] # 0 }

\* C12: after the first pass of refresh_timeouts over a spot group, the
\* group's value in _spot_timeouts is now + _TIMEOUT exactly when the outbid
\* time summed over the zones and divided by the number of zones whose
\* outbid time is not zero exceeds _MAX_OUTBIDS_IN_INTERVAL, and is null
\* otherwise; a group with no such zone has a null value.
C12_SpotAverageOverOutbidZones ==
    (last.op = "refresh_timeouts" /\ last.frame.tm = NewTimeouts) =>
        \A id \in DOMAIN asgs :
            asgs[id].is_spot =>
                /\ id \in DOMAIN timeouts._spot_timeouts
                /\ timeouts._spot_timeouts[id] =
                     IF /\ OutbidZones(id) # {}
                        /\ SumValues(OutbidTimeOf(id)) >
                             _MAX_OUTBIDS_IN_INTERVAL * Cardinality(OutbidZones(id))
                     THEN Some(last.frame.now + _TIMEOUT)
                     ELSE None

(***************************************************************************)
(* The claims about the watermark of refresh_timeouts.                     *)
(***************************************************************************)
\* the place of an activity in a log
Pos(log, activity_id) == CHOOSE i \in 1..Len(log) : log[i].ActivityId = activity_id

\* the last operation was a pass that came straight after another pass and
\* began with a watermark stored for the region
SecondPass(region) ==
    /\ last.op = "refresh_timeouts"
    /\ "after" \in DOMAIN last.frame
    /\ last.frame.after = "refresh_timeouts"
    /\ region \in DOMAIN last.frame.tm._last_activities

\* C13: in the second of two consecutive passes of refresh_timeouts, every
\* activity handed to reconcile_limits lies before the stored watermark in
\* the region's log: neither the watermark nor anything older is handed.
C13_StopsAtWatermark ==
    \A id \in Reconciled :
        SecondPass(id[1]) =>
            LET log == last.frame.cloud.activities[id[1]]
                watermark == last.frame.tm._last_activities[id[1]]
                given == last.runs[id].activities
            IN \A i \in 1..Len(given) :
                   Pos(log, given[i].ActivityId) < Pos(log, watermark)

\* a second pass that was handed the activity in flight only, of a log that
\* holds the watermark and an older activity
C13_Witness ==
    \E id \in Reconciled :
        /\ SecondPass(id[1])
        /\ Len(last.frame.cloud.activities[id[1]]) = 3
        /\ Pos(last.frame.cloud.activities[id[1]],
               last.frame.tm._last_activities[id[1]]) = 2
        /\ Len(last.runs[id].activities) = 1
        /\ last.runs[id].activities[1].ActivityId =
             last.frame.cloud.activities[id[1]][1].ActivityId

\* C17: the watermark stored for a region is the ActivityId of an activity
\* of the region's log that has Progress = 100, and a pass that began with a
\* watermark leaves one that is not older: its place in the log, newest
\* first, is not after the place of the watermark the pass began with.
C17_WatermarkCompletedAndForward ==
    \A region \in DOMAIN timeouts._last_activities :
        LET log == cloud.activities[region]
            watermark == timeouts._last_activities[region]
        IN /\ \E i \in 1..Len(log) :
                /\ log[i].ActivityId = watermark
                /\ log[i].Progress = 100
           /\ (last.op = "refresh_timeouts"
                 /\ region \in DOMAIN last.frame.tm._last_activities) =>
                Pos(log, watermark) <= Pos(log, last.frame.tm._last_activities[region])

\* a pass moved the watermark to a newer completed activity, behind an
\* activity still in flight
C17_Witness ==
    /\ last.op = "refresh_timeouts"
    /\ \E region \in DOMAIN last.frame.tm._last_activities :
         LET log == cloud.activities[region]
         IN /\ Len(log) = 3
            /\ log[1].Progress < 100
            /\ timeouts._last_activities[region] = log[2].ActivityId
            /\ last.frame.tm._last_activities[region] = log[3].ActivityId

\* the activities a pass that began now would hand to a group
NextPassHands(id) ==
    LET region == id[1]
        last_activity == IF region \in DOMAIN timeouts._last_activities
                         THEN Some(timeouts._last_activities[region])
                         ELSE None
        st == ScanActivities(Get(cloud.activities, region), 1, last_activity, now,
                             [ newest_completed_activity |-> None,
                               start_time_cutoff |-> None,
                               activities |-> << >> ])
    IN Get(st.activities, id[2])

\* C18: an activity that was handed to reconcile_limits while in flight and
\* has since ended Failed or Cancelled, its StartTime still within _TIMEOUT,
\* has been handed in that final status or is handed by the next pass.
C18_NoFailureMissed ==
    \A id \in DOMAIN asgs :
        LET log == Get(cloud.activities, id[1])
        IN \A i \in 1..Len(log) :
             (/\ log[i].AutoScalingGroupName = id[2]
              /\ log[i].StatusCode \in {"Failed", "Cancelled"}
              /\ log[i].StartTime >= now - _TIMEOUT
              /\ <<log[i].ActivityId, InFlight.StatusCode>> \in handed)
                 => \/ <<log[i].ActivityId, log[i].StatusCode>> \in handed
                    \/ \E j \in 1..Len(NextPassHands(id)) :
                         NextPassHands(id)[j].ActivityId = log[i].ActivityId

(***************************************************************************)
(* The claim about desired_capacity and the provider.                      *)
(***************************************************************************)
\* C16: after a set_desired_capacity, scale or scale_nodes_in call that
\* returned without error, the group's desired_capacity is the desired
\* capacity the provider holds for the group; and when the provider rejected
\* a set_desired_capacity call, desired_capacity is what it was before the
\* call.
C16_DesiredMatchesProvider ==
    last.op \in {"set_desired_capacity", "scale", "scale_nodes_in"} =>
        /\ ~last.raised => asgs[last.id].desired_capacity = cloud.desired[last.id]
        /\ (\E i \in 1..Len(SetCalls) : ~SetCalls[i].answered) =>
              asgs[last.id].desired_capacity =
                  last.frame.asgs[last.id].desired_capacity

(***************************************************************************)
(* The claims about the order of the rules and the direction of the        *)
(* corrections of reconcile_limits.                                        *)
(***************************************************************************)
\* a Failed or Cancelled entry that one of the returning rules takes
IsStopping(entry, name) ==
    /\ entry.StatusCode \in {"Failed", "Cancelled"}
    /\ \/ INSTANCE_LIMIT(entry.StatusMessage) # None
       \/ VOLUME_LIMIT(entry.StatusMessage)
       \/ CAPACITY_LIMIT(entry.StatusMessage)
       \/ AZ_LIMIT(entry.StatusMessage) /\ name = "workers-only-az"
       \/ ~SPOT_REQUEST_CANCELLED(entry.StatusMessage) /\ SPOT_LIMIT(entry.StatusMessage)

\* C19: reconcile_limits processes the activities of a group in the order
\* it was handed them and stops at the first entry a stopping rule takes:
\* that entry is the last one processed, the desired_capacity and the expiry
\* it leaves are those of the end of the pass, and no earlier entry of the
\* pass was taken by a stopping rule.
C19_FirstStoppingRuleWins ==
    \A id \in Reconciled :
        LET steps == Steps(id)
            given == last.runs[id].activities
        IN /\ Len(steps) <= Len(given)
           /\ \A i \in 1..Len(steps) :
                /\ steps[i].entry = given[i]
                /\ IsStopping(steps[i].entry, id[2]) =>
                     /\ i = Len(steps)
                     /\ steps[i].ctl \in {"return", "raise"}
                     /\ asgs[id].desired_capacity = steps[i].desired_after
                     /\ Get(timeouts._timeouts, id) = steps[i].timeout_after
                /\ i < Len(steps) => ~IsStopping(steps[i].entry, id[2])

\* a volume-limit entry ended the pass ahead of an instance-limit entry that
\* would have capped the group
C19_Witness ==
    \E id \in Reconciled :
        /\ ~last.dry_run
        /\ Len(last.runs[id].activities) = 2
        /\ VOLUME_LIMIT(last.runs[id].activities[1].StatusMessage)
        /\ IsInstanceLimit(last.runs[id].activities[2])
        /\ Len(Steps(id)) = 1
        /\ Steps(id)[1].marked
        /\ last.frame.asgs[id].desired_capacity = 2
        /\ asgs[id].desired_capacity = 2
        /\ Get(timeouts._timeouts, id) =
             Some(last.runs[id].activities[1].StartTime + _TIMEOUT)

\* C20: after a pass of refresh_timeouts every group's desired_capacity is
\* less than or equal to its value before the pass.
C20_PassNeverRaisesDesired ==
    last.op = "refresh_timeouts" =>
        \A id \in DOMAIN asgs :
            /\ asgs[id].desired_capacity <= last.frame.asgs[id].desired_capacity
            /\ cloud.desired[id] <= last.frame.cloud.desired[id]

(***************************************************************************)
(* The claims about get_all_groups.                                        *)
(***************************************************************************)
\* the groups the provider held in a region when the last operation began
RawGroupsOf(region) == Range(last.frame.cloud.raw_groups[region])

\* whether a group carries the cluster tag with this value, and a role tag
\* under either key with a worker value
HasClusterTag(raw_group, cluster_name) ==
    \E i \in 1..Len(raw_group.Tags) :
        raw_group.Tags[i].Key = _CLUSTER_KEY /\ raw_group.Tags[i].Value = cluster_name
HasWorkerRoleTag(raw_group) ==
    \E i \in 1..Len(raw_group.Tags) :
        raw_group.Tags[i].Key \in _ROLE_KEYS /\ raw_group.Tags[i].Value \in _WORKER_ROLE_VALUES

\* C14: with cluster_name set, get_all_groups returns a group if and only if
\* the group carries the KubernetesCluster tag with the value cluster_name
\* and carries a tag under KubernetesRole or Role whose value is worker or
\* kubernetes-minion, whatever the tags and their order, a group carrying
\* both role keys included; with no cluster_name every group is returned.
C14_IncludedIffClusterAndWorkerRole ==
    (last.op = "get_all_groups" /\ ~last.raised) =>
        \A i \in 1..Len(Regions) : \A raw_group \in RawGroupsOf(Regions[i]) :
            (<<Regions[i], raw_group.AutoScalingGroupName>> \in Range(last.result))
              <=> \/ last.arg = None
                  \/ /\ HasClusterTag(raw_group, last.arg[1])
                     /\ HasWorkerRoleTag(raw_group)

\* the describe_launch_configurations calls of the last operation
DescribeCalls == SelectSeq(last.calls, LAMBDA c : c.api = "describe_launch_configurations")

\* C15: whatever the number of groups of a region, the launch configurations
\* are asked for in batches of at most batch_size names that together hold
\* the launch configuration name of every group, and get_all_groups returns
\* every group it keeps joined with the launch configuration of its own
\* name, none being left without one when the region holds more groups than
\* one batch.
C15_BatchesCoverEveryGroup ==
    last.op = "get_all_groups" =>
        /\ \A i \in 1..Len(DescribeCalls) :
               Len(DescribeCalls[i].LaunchConfigurationNames) <= batch_size
        /\ UNION { Range(DescribeCalls[i].LaunchConfigurationNames) :
                     i \in 1..Len(DescribeCalls) }
             = UNION { { raw_group.LaunchConfigurationName :
                           raw_group \in RawGroupsOf(Regions[i]) } : i \in 1..Len(Regions) }
        /\ ~last.raised
        /\ \A i \in 1..Len(Regions) : \A raw_group \in RawGroupsOf(Regions[i]) :
               LET id == <<Regions[i], raw_group.AutoScalingGroupName>>
               IN id \in Range(last.result) =>
                    asgs[id].launch_config.LaunchConfigurationName
                      = raw_group.LaunchConfigurationName

(***************************************************************************)
(* The claims about passes of refresh_timeouts that raise.                 *)
(***************************************************************************)
\* the last operation is a pass that follows a pass in which a provider call
\* raised
AfterRaisedPass ==
    /\ last.op = "refresh_timeouts"
    /\ "prior" \in DOMAIN last.frame
    /\ last.frame.after = "refresh_timeouts"
    /\ last.frame.prior.raised
    /\ \E i \in 1..Len(last.frame.prior.calls) : ~last.frame.prior.calls[i].answered

\* the Failed and Cancelled activities among those a run was handed
Failures(run) ==
    { a \in Range(run.activities) : a.StatusCode \in {"Failed", "Cancelled"} }

\* C21: when a provider call (set_desired_capacity, the cancellation of a
\* spot request) raises while the groups of a region are reconciled, that
\* pass leaves the region's watermark where it was, and the next pass of
\* refresh_timeouts hands the same failure activities to reconcile_limits
\* again.
C21_RaisedPassKeepsWatermark ==
    AfterRaisedPass =>
        /\ last.frame.tm._last_activities = last.frame.prior._last_activities
        /\ \A id \in DOMAIN last.frame.prior.runs :
               /\ id \in DOMAIN last.runs
               /\ Failures(last.frame.prior.runs[id]) \subseteq Failures(last.runs[id])

\* whether the scan of a region's log, as the last pass began, sees no
\* completed activity
SeesNoCompleted(region) ==
    LET tm == last.frame.tm
        st == ScanActivities(Get(last.frame.cloud.activities, region), 1,
                             IF region \in DOMAIN tm._last_activities
                             THEN Some(tm._last_activities[region]) ELSE None,
                             last.frame.now,
                             [ newest_completed_activity |-> None,
                               start_time_cutoff |-> None,
                               activities |-> << >> ])
    IN st.newest_completed_activity = None

\* C22: a pass of refresh_timeouts whose scan of a region's log sees no
\* completed activity (the log is empty, or holds only activities in flight
\* before the cutoff or its end) raises nothing, leaves the region's
\* watermark as it was and still reconciles every group.
C22_PassEndsWithoutCompleted ==
    ( /\ last.op = "refresh_timeouts"
      /\ last.frame.outage = 0
      /\ \E region \in Range(RegionsOf(last.arg)) : SeesNoCompleted(region) ) =>
        /\ ~last.raised
        /\ timeouts._last_activities = last.frame.tm._last_activities
        /\ \A id \in Range(last.arg) : id \in DOMAIN last.runs

(***************************************************************************)
(* The claim about the group's views of its members.                       *)
(***************************************************************************)
\* the nodes the last scale_nodes_in terminated
TerminatedNodes ==
    IF last.op = "scale_nodes_in"
    THEN { last.calls[i].InstanceId :
             i \in { j \in 1..Len(last.calls) : last.calls[j].outcome = "ok" } }
    ELSE {}

\* C23: after any sequence of scale and scale_nodes_in calls,
\* unschedulable_nodes is a part of nodes and nodes holds exactly the cluster
\* nodes whose instance is in instance_ids; after scale_nodes_in has
\* terminated a node, contains(node) is false.
C23_MembershipViewsConsistent ==
    \A id \in DOMAIN asgs :
        /\ Range(asgs[id].unschedulable_nodes) \subseteq Range(asgs[id].nodes)
        /\ Range(asgs[id].nodes) = { n \in DOMAIN kube : n \in asgs[id].instance_ids }
        /\ last.id = id => \A node \in TerminatedNodes : ~contains(asgs[id], node)

(***************************************************************************)
(* The claim about the outbid time of a zone.                              *)
(***************************************************************************)
\* C24: for every spot group and every availability zone, the outbid time
\* that time_out_spot_asgs accumulates is never negative and never more than
\* _SPOT_HISTORY_PERIOD, whatever the order of the observations in
\* _spot_price_history after any number of passes, the items kept from
\* earlier passes being followed by the items fetched.
C24_OutbidTimeWithinPeriod ==
    last.op = "refresh_timeouts" =>
        \A id \in DOMAIN asgs :
            asgs[id].is_spot =>
                \A az \in DOMAIN OutbidTimeOf(id) :
                    /\ OutbidTimeOf(id)[az] >= 0
                    /\ OutbidTimeOf(id)[az] <= _SPOT_HISTORY_PERIOD

====
